---- MODULE Spec2Model ----
(***************************************************************************)
(* Detoxify backend: the /detox/start entry operation and the session      *)
(* orchestrator runDetoxAutomation (Backend/server.js) together with the   *)
(* content resolver getCuratedVideoIds (youtubeApi.js).                    *)
(*                                                                         *)
(* runDetoxAutomation is an async function: the code between two awaits    *)
(* runs to completion without interleaving, so every action below is one   *)
(* such segment, entered when the awaited call returns or fails.           *)
(* trace is the observable history of the run in program order: the HTTP   *)
(* response, every socket emission, every call to an external collaborator *)
(* and every error raised.                                                 *)
(***************************************************************************)
EXTENDS Integers, Sequences, FiniteSets, TLC

VARIABLES pc, request, response, topic, totalDurationSeconds, rawCookies,
          socketId, cookies, videoIds, browser, engine, index, watchedTime,
          watchDuration, trace, parked

vars == <<pc, request, response, topic, totalDurationSeconds, rawCookies,
          socketId, cookies, videoIds, browser, engine, index, watchedTime,
          watchDuration, trace, parked>>

(***************************************************************************)
(* Bounds of the model and constants of the program.                       *)
(***************************************************************************)
MaxVideos == 4
MaxDurationSteps == 14
MaxCookies == 1
MaxConcurrentVideos == 1
MaxConcurrentDurationSteps == 1
MaxSwitches == 1
MIN_WATCH_TIME_PER_VIDEO_MS == 30000
DefaultDurationSeconds == 60

(***************************************************************************)
(* JavaScript values, tagged by type.                                      *)
(***************************************************************************)
Undefined == [t |-> "undefined"]
Null == [t |-> "null"]
Str(s) == [t |-> "string", s |-> s]
Num(n) == [t |-> "number", n |-> n]
Bool(b) == [t |-> "boolean", b |-> b]
Arr(items) == [t |-> "array", items |-> items]
Obj(fields) == [t |-> "object", fields |-> fields]
\* A string whose characters are the JSON serialisation of doc.
JsonText(label, doc) == [t |-> "string", s |-> label, doc |-> doc]

\* ToBoolean, as used by !x, x || y and if (x).
Truthy(v) ==
    CASE v.t = "undefined" -> FALSE
      [] v.t = "null" -> FALSE
      [] v.t = "boolean" -> v.b
      [] v.t = "number" -> v.n # 0
      [] v.t = "string" -> v.s # ""
      [] OTHER -> TRUE

\* a || b
Or(a, b) == IF Truthy(a) THEN a ELSE b

Min(a, b) == IF a <= b THEN a ELSE b

\* Number.prototype.toFixed(1) of ms / 1000, as <<whole seconds, tenths>>;
\* the argument is non-negative here and rounds to the nearest tenth.
ToFixed1(ms) ==
    LET tenths == (ms + 50) \div 100
    IN  <<tenths \div 10, tenths % 10>>

\* String.prototype.toLowerCase on the strings that occur as sameSite values.
ToLowerCase(s) ==
    CASE s = "No_Restriction" -> "no_restriction"
      [] s = "NO_RESTRICTION" -> "no_restriction"
      [] s = "Strict" -> "strict"
      [] s = "Lax" -> "lax"
      [] s = "LAX" -> "lax"
      [] s = "None" -> "none"
      [] s = "Bogus" -> "bogus"
      [] OTHER -> s

(***************************************************************************)
(* Cookie normalisation (server.js 60-81).  A cookie is a function from    *)
(* property names to values; delete removes the name from the domain.      *)
(***************************************************************************)
Delete(o, key) == [k \in (DOMAIN o) \ {key} |-> o[k]]
Get(o, key) == IF key \in DOMAIN o THEN o[key] ELSE Undefined

\* { ...cookie }: the own properties of an object, none for null.
Spread(v) == IF v = Null THEN <<>> ELSE v

\* Mutant: the sameSite value is matched without lower-casing it.
NormalizeSameSite_CaseSensitive(c) ==
    LET ss == Get(c, "sameSite")
    IN  IF Truthy(ss) /\ ss.t = "string"
        THEN IF ss.s = "no_restriction"
             THEN [c EXCEPT !["sameSite"] = Str("None")]
             ELSE IF ss.s # "strict" /\ ss.s # "lax" /\ ss.s # "none"
                  THEN Delete(c, "sameSite")
                  ELSE c
        ELSE IF ss.t = "null" \/ ss.t = "undefined"
             THEN Delete(c, "sameSite")
             ELSE c

NormalizeSameSite(c) ==
    LET ss == Get(c, "sameSite")
    IN  IF Truthy(ss) /\ ss.t = "string"
        THEN LET normalizedSameSite == ToLowerCase(ss.s)
             IN  IF normalizedSameSite = "no_restriction"
                 THEN [c EXCEPT !["sameSite"] = Str("None")]
                 ELSE IF /\ normalizedSameSite # "strict"
                         /\ normalizedSameSite # "lax"
                         /\ normalizedSameSite # "none"
                      THEN Delete(c, "sameSite")
                      ELSE c
        ELSE IF ss.t = "null" \/ ss.t = "undefined"
             THEN Delete(c, "sameSite")
             ELSE c

\* Mutant: the generic id is not removed.
NormalizeCookie_KeepsId(cookie) ==
    LET c1 == Delete(Spread(cookie), "storeId")
        c2 == IF Truthy(Get(c1, "session")) THEN Delete(c1, "expirationDate") ELSE c1
    IN  NormalizeSameSite(c2)

NormalizeCookie(cookie) ==
    LET c1 == Delete(Delete(Spread(cookie), "storeId"), "id")
        c2 == IF Truthy(Get(c1, "session")) THEN Delete(c1, "expirationDate") ELSE c1
    IN  NormalizeSameSite(c2)

NormalizeCookies(items) == [i \in 1..Len(items) |-> NormalizeCookie(items[i])]

(***************************************************************************)
(* Inputs.                                                                 *)
(***************************************************************************)
CookieEntries ==
    { [name |-> Str("SID"), value |-> Str("abc"), storeId |-> Str("0"), id |-> Num(1),
       session |-> Bool(TRUE), expirationDate |-> Num(1700), sameSite |-> Str("No_Restriction")],
      [name |-> Str("HSID"), value |-> Str("def"), session |-> Bool(FALSE),
       expirationDate |-> Num(1800), sameSite |-> Str("Lax")],
      [name |-> Str("PREF"), value |-> Str("ghi"), sameSite |-> Str("Bogus")] }

RECURSIVE SeqsUpTo(_, _)
SeqsUpTo(S, n) ==
    IF n = 0 THEN {<<>>}
    ELSE LET shorter == SeqsUpTo(S, n - 1)
         IN  shorter \cup {Append(q, x) : q \in {p \in shorter : Len(p) = n - 1}, x \in S}

CookieArrays == SeqsUpTo(CookieEntries, MaxCookies)

\* Credential blobs: absent, empty, not JSON, JSON that is not an array, and
\* JSON arrays of cookie objects.
MissingBlobs == {Undefined, Str("")}
MalformedBlobs == {Str("{oops")}
NonArrayBlobs ==
    { JsonText("null", Null), JsonText("7", Num(7)),
      JsonText("quoted", Str("abc")), JsonText("object", Obj(<<>>)) }
ArrayBlobs == {JsonText("array", Arr(a)) : a \in CookieArrays}
CredentialBlobs == MissingBlobs \cup MalformedBlobs \cup NonArrayBlobs \cup ArrayBlobs

\* Cookie records for the normalisation alone: every sameSite shape on a few
\* base records, and a null element.
BaseCookies ==
    { [name |-> Str("SID"), value |-> Str("abc"), storeId |-> Str("0"), id |-> Num(1),
       session |-> Bool(TRUE), expirationDate |-> Num(1700)],
      [name |-> Str("HSID"), value |-> Str("def"), id |-> Num(2), session |-> Bool(FALSE),
       expirationDate |-> Num(1800)],
      [name |-> Str("PREF"), domain |-> Str(".youtube.com"), path |-> Str("/")] }
SameSiteInputs ==
    { Undefined, Null, Str(""), Num(1),
      Str("no_restriction"), Str("No_Restriction"), Str("NO_RESTRICTION"),
      Str("strict"), Str("Strict"), Str("LAX"), Str("Lax"), Str("none"), Str("None"),
      Str("bogus"), Str("Bogus") }
WithSameSite(c, v) ==
    IF v = Undefined THEN c
    ELSE [k \in DOMAIN c \cup {"sameSite"} |-> IF k = "sameSite" THEN v ELSE c[k]]
RichCookies == {WithSameSite(c, v) : c \in BaseCookies, v \in SameSiteInputs} \cup {Null}
NormalizeBlobs == {JsonText("array", Arr(a)) : a \in SeqsUpTo(RichCookies, MaxCookies + 1)}

Durations == {Num(5 * k) : k \in (-1)..MaxDurationSteps}
Topics == {Str("rust")}
SocketIds == {Str("s1")}

\* What the search request of getCuratedVideoIds meets: no API key, a failed
\* request, or a response whose items carry a videoId (a positive token) or
\* none (0).
ItemLists ==
    UNION { { [j \in 1..n |-> [videoId |-> IF j \in idless THEN 0 ELSE j]] :
              idless \in SUBSET (1..n) } : n \in 0..MaxVideos }
ApiOutcomes ==
    {[k |-> "nokey", items |-> <<>>], [k |-> "failed", items |-> <<>>]}
      \cup {[k |-> "ok", items |-> l] : l \in ItemLists}


(***************************************************************************)
(* Content resolver (youtubeApi.js).                                       *)
(***************************************************************************)
\* items.filter(item => item.id.videoId).map(item => item.id.videoId)
FilterVideoIds(items) ==
    LET kept == SelectSeq(items, LAMBDA it : it.videoId # 0)
    IN  [i \in 1..Len(kept) |-> kept[i].videoId]

getCuratedVideoIds(api) ==
    IF api.k = "nokey"
    THEN [ok |-> FALSE, ids |-> <<>>,
          error |-> "ERROR: YOUTUBE_API_KEY is missing. Check your .env file."]
    ELSE IF api.k = "failed"
    THEN [ok |-> FALSE, ids |-> <<>>,
          error |-> "Failed to fetch videos from YouTube. Check your API key or quota."]
    ELSE [ok |-> TRUE, ids |-> FilterVideoIds(api.items), error |-> ""]

(***************************************************************************)
(* The observable history.                                                 *)
(***************************************************************************)
Msg(text, params) == [text |-> text, params |-> params]
Emitted(sid, name, payload) == [k |-> "emit", name |-> name, to |-> sid, arg |-> payload]
Called(fn, arg) == [k |-> "call", name |-> fn, to |-> Undefined, arg |-> arg]
Thrown(error) == [k |-> "throw", name |-> error, to |-> Undefined, arg |-> Undefined]
Responded(code) == [k |-> "respond", name |-> "status", to |-> Undefined, arg |-> Num(code)]

\* emitLog / log: io.to(socketId).emit('log', {message, type})
emitLog(tr, sid, text, params, type) ==
    Append(tr, Emitted(sid, "log", [message |-> Msg(text, params), type |-> type]))

InProgress == "status-in-progress"

(***************************************************************************)
(* runDetoxAutomation: the try / catch / finally frame.                    *)
(***************************************************************************)
BrowserHandle == Obj([kind |-> "Browser"])

\* throw inside the try block
Throw(tr, error) == Append(tr, Thrown(error))

\* Mutant: the catch block logs locally and emits nothing.
Catch_Silent(tr, sid, error) == tr

\* catch (error): io.to(socketId).emit('detoxError', {message: error.message})
Catch(tr, sid, error) ==
    Append(tr, Emitted(sid, "detoxError", [message |-> Msg(error, <<>>)]))

\* Mutant: the finally block closes the engine without testing the handle.
Finally_AlwaysClose(tr, b) ==
    [trace |-> Append(tr, Called("browser.close", Undefined)), pc |-> "awaitClose"]

\* Mutant: the finally block does not close the engine.
Finally_NoClose(tr, b) == [trace |-> tr, pc |-> "done"]

\* finally: if (browser) await browser.close()
Finally(tr, b) ==
    IF Truthy(b)
    THEN [trace |-> Append(tr, Called("browser.close", Undefined)), pc |-> "awaitClose"]
    ELSE [trace |-> tr, pc |-> "done"]

\* An error raised inside the try block, up to the await of the finally block.
Failed(tr, sid, error, b) == Finally(Catch(Throw(tr, error), sid, error), b)

\* JSON.parse
JSONparse(text) ==
    IF "doc" \in DOMAIN text
    THEN [ok |-> TRUE, value |-> text.doc]
    ELSE [ok |-> FALSE, value |-> Undefined]

\* Mutant: anything that is not an array counts as an empty cookie list.
ParseCookies_Lenient(raw) ==
    LET parsed == JSONparse(raw)
    IN  IF Truthy(raw) /\ parsed.ok /\ parsed.value.t = "array"
        THEN [ok |-> TRUE, cookies |-> NormalizeCookies(parsed.value.items), error |-> ""]
        ELSE [ok |-> TRUE, cookies |-> <<>>, error |-> ""]

\* Step 1 of the try block: validate, parse and normalise the cookies.
ParseCookies(raw) ==
    IF ~Truthy(raw)
    THEN [ok |-> FALSE, cookies |-> <<>>,
          error |-> "User authentication failed: Cookies were not provided."]
    ELSE LET parsed == JSONparse(raw)
         IN  IF ~parsed.ok
             THEN [ok |-> FALSE, cookies |-> <<>>,
                   error |-> "User authentication failed: Cookies format is invalid JSON."]
             ELSE IF parsed.value.t = "null"
             THEN [ok |-> FALSE, cookies |-> <<>>,
                   error |-> "Cannot read properties of null (reading 'map')"]
             ELSE IF parsed.value.t # "array"
             THEN [ok |-> FALSE, cookies |-> <<>>,
                   error |-> "cookies.map is not a function"]
             ELSE [ok |-> TRUE, cookies |-> NormalizeCookies(parsed.value.items),
                   error |-> ""]

TotalDurationMs == totalDurationSeconds.n * 1000

\* The success exit of the try block followed by the finally block.
Complete(tr, sid, w, b) ==
    Finally(Append(tr, Emitted(sid, "detoxComplete",
                [success |-> TRUE,
                 message |-> Msg("Detox session finished. Total time simulated:",
                                 ToFixed1(w))])), b)

\* Mutant: the item is navigated to before it is announced.
Visit_NavigateFirst(tr, sid, ids, i, dur) ==
    emitLog(Append(tr, Called("page.goto", Num(ids[i + 1]))), sid, "Watching video",
            <<i + 1, Len(ids)>> \o ToFixed1(dur), InProgress)

\* The announcement of item i and the navigation to it.
Visit(tr, sid, ids, i, dur) ==
    Append(emitLog(tr, sid, "Watching video", <<i + 1, Len(ids)>> \o ToFixed1(dur), InProgress),
           Called("page.goto", Num(ids[i + 1])))

\* Mutant: every item is held for the full per-item time.
LoopStep_FixedDwell(tr, sid, ids, totalMs, i, w, b) ==
    IF i >= Len(ids) \/ w >= totalMs
    THEN LET out == Complete(tr, sid, w, b)
         IN  [trace |-> out.trace, pc |-> out.pc, watchDuration |-> 0]
    ELSE [trace |-> Visit(tr, sid, ids, i, MIN_WATCH_TIME_PER_VIDEO_MS),
          pc |-> "awaitGotoVideo",
          watchDuration |-> MIN_WATCH_TIME_PER_VIDEO_MS]

\* Mutant: the loop breaks on watchedTime > totalDurationMs.
LoopStep_StrictBreak(tr, sid, ids, totalMs, i, w, b) ==
    IF i >= Len(ids) \/ w > totalMs
    THEN LET out == Complete(tr, sid, w, b)
         IN  [trace |-> out.trace, pc |-> out.pc, watchDuration |-> 0]
    ELSE LET dur == Min(MIN_WATCH_TIME_PER_VIDEO_MS, totalMs - w)
         IN  [trace |-> Visit(tr, sid, ids, i, dur),
              pc |-> "awaitGotoVideo",
              watchDuration |-> dur]

\* The head of the for loop at position i with watchedTime w, up to the next
\* await: either the loop ends and detoxComplete is emitted, or the item at
\* position i is announced and navigated to.
LoopStep(tr, sid, ids, totalMs, i, w, b) ==
    IF i >= Len(ids) \/ w >= totalMs
    THEN LET out == Complete(tr, sid, w, b)
         IN  [trace |-> out.trace, pc |-> out.pc, watchDuration |-> 0]
    ELSE LET remainingTime == totalMs - w
             watchDur == Min(MIN_WATCH_TIME_PER_VIDEO_MS, remainingTime)
         IN  [trace |-> Visit(tr, sid, ids, i, watchDur),
              pc |-> "awaitGotoVideo",
              watchDuration |-> watchDur]

\* The call of runDetoxAutomation up to its first await.
RunDetoxAutomation(t, d, raw, sid, tr0) ==
    LET tr1 == emitLog(tr0, sid, "Validating authentication data...", <<>>, InProgress)
        parsed == ParseCookies(raw)
        out == Failed(tr1, sid, parsed.error, Undefined)
    IN  /\ topic' = t
        /\ totalDurationSeconds' = d
        /\ rawCookies' = raw
        /\ socketId' = sid
        /\ browser' = Undefined
        /\ engine' = "none"
        /\ videoIds' = <<>>
        /\ index' = 0
        /\ watchedTime' = 0
        /\ watchDuration' = 0
        /\ IF parsed.ok
           THEN /\ cookies' = parsed.cookies
                /\ trace' = Append(
                       emitLog(tr1, sid, "Cookies parsed and normalized. Fetching video list...",
                               <<>>, InProgress),
                       Called("getCuratedVideoIds", t))
                /\ pc' = "awaitResolve"
           ELSE /\ cookies' = <<>>
                /\ trace' = out.trace
                /\ pc' = out.pc

\* The calls suspended at an await while another call runs (none when a
\* single call is in flight), the events the transport has carried up to the
\* last resumption, and where the history of the running call stood then.
NoneParked == [runs |-> {}, wire |-> <<>>, since |-> 0, switches |-> 0]

(***************************************************************************)
(* Actions.                                                                *)
(***************************************************************************)
Init ==
    /\ pc = "idle"
    /\ request = Undefined
    /\ response = 0
    /\ topic = Undefined
    /\ totalDurationSeconds = Undefined
    /\ rawCookies = Undefined
    /\ socketId = Undefined
    /\ cookies = <<>>
    /\ videoIds = <<>>
    /\ browser = Undefined
    /\ engine = "none"
    /\ index = 0
    /\ watchedTime = 0
    /\ watchDuration = 0
    /\ trace = <<>>
    /\ parked = NoneParked

\* A direct call run(topic, totalDurationSeconds, rawCredentials, subscriberId).
Invoke ==
    /\ pc = "idle"
    /\ \E t \in Topics, d \in Durations, raw \in CredentialBlobs, sid \in SocketIds :
          RunDetoxAutomation(t, d, raw, sid, trace)
    /\ UNCHANGED <<parked, request, response>>

\* Mutant: the entry operation does not check the socket id.
MissingParameters_NoSocketCheck(t, raw, sid) == ~Truthy(t) \/ ~Truthy(raw)

\* if (!topic || !userCookies || !socketId)
MissingParameters(t, raw, sid) == ~Truthy(t) \/ ~Truthy(raw) \/ ~Truthy(sid)

\* app.post('/detox/start')
PostDetoxStart ==
    /\ pc = "idle"
    /\ response = 0
    /\ UNCHANGED parked
    /\ \E t \in Topics \cup {Undefined, Str("")}, d \in Durations \cup {Undefined},
          raw \in CredentialBlobs, sid \in SocketIds \cup {Undefined} :
          /\ request' = [topic |-> t, duration |-> d, userCookies |-> raw, socketId |-> sid]
          /\ IF MissingParameters(t, raw, sid)
             THEN /\ response' = 400
                  /\ trace' = Append(trace, Responded(400))
                  /\ UNCHANGED <<pc, topic, totalDurationSeconds, rawCookies, socketId,
                                 cookies, videoIds, browser, engine, index, watchedTime,
                                 watchDuration>>
             ELSE /\ response' = 200
                  /\ RunDetoxAutomation(t, Or(d, Num(DefaultDurationSeconds)), raw, sid,
                                        Append(trace, Responded(200)))

\* Mutant: an empty video list is not rejected.
NoVideosFound_Unchecked(ids) == FALSE

\* if (videoIds.length === 0)
NoVideosFound(ids) == Len(ids) = 0

\* await getCuratedVideoIds(topic) settles.
ResolveReturn ==
    /\ pc = "awaitResolve"
    /\ \E api \in ApiOutcomes :
          LET r == getCuratedVideoIds(api)
              error == IF ~r.ok THEN r.error
                       ELSE "Could not find relevant long-form videos for this topic."
              out == Failed(trace, socketId, error, browser)
          IN  /\ videoIds' = r.ids
              /\ IF ~r.ok \/ NoVideosFound(r.ids)
                 THEN trace' = out.trace /\ pc' = out.pc
                 ELSE /\ trace' = Append(
                             emitLog(trace, socketId,
                                     "Found videos. Initiating browser automation...",
                                     <<Len(r.ids)>>, InProgress),
                             Called("puppeteer.launch", Undefined))
                      /\ pc' = "awaitLaunch"
    /\ UNCHANGED <<parked, request, response, topic, totalDurationSeconds, rawCookies, socketId,
                   cookies, browser, engine, index, watchedTime, watchDuration>>

\* An awaited engine call fails: the error is caught and the finally block runs.
Reject(error) ==
    LET out == Failed(trace, socketId, error, browser)
    IN  trace' = out.trace /\ pc' = out.pc

\* await puppeteer.launch(...) settles.
LaunchReturn ==
    /\ pc = "awaitLaunch"
    /\ \/ /\ browser' = BrowserHandle
          /\ engine' = "running"
          /\ trace' = Append(trace, Called("browser.newPage", Undefined))
          /\ pc' = "awaitNewPage"
       \/ /\ Reject("Failed to launch the browser process")
          /\ UNCHANGED <<browser, engine>>
    /\ UNCHANGED <<parked, request, response, topic, totalDurationSeconds, rawCookies, socketId,
                   cookies, videoIds, index, watchedTime, watchDuration>>

\* await browser.newPage() settles.
NewPageReturn ==
    /\ pc = "awaitNewPage"
    /\ \/ /\ trace' = Append(trace, Called("page.setUserAgent", Undefined))
          /\ pc' = "awaitSetUserAgent"
       \/ Reject("newPage failed")
    /\ UNCHANGED <<parked, request, response, topic, totalDurationSeconds, rawCookies, socketId,
                   cookies, videoIds, browser, engine, index, watchedTime, watchDuration>>

\* Mutant: the cookies are not injected before the first navigation.
SetUserAgentReturn_SkipsCookies ==
    /\ pc = "awaitSetUserAgent"
    /\ \/ /\ trace' = Append(
                 emitLog(trace, socketId, "Cookies set. Navigating to YouTube...", <<>>,
                         InProgress),
                 Called("page.goto", Str("https://www.youtube.com/")))
          /\ pc' = "awaitGotoHome"
       \/ Reject("setUserAgent failed")
    /\ UNCHANGED <<parked, request, response, topic, totalDurationSeconds, rawCookies, socketId,
                   cookies, videoIds, browser, engine, index, watchedTime, watchDuration>>

\* await page.setUserAgent(...) settles.
SetUserAgentReturn ==
    /\ pc = "awaitSetUserAgent"
    /\ \/ /\ trace' = Append(
                 emitLog(trace, socketId, "Applying user session cookies...", <<>>, InProgress),
                 Called("page.setCookie", Arr(cookies)))
          /\ pc' = "awaitSetCookie"
       \/ Reject("setUserAgent failed")
    /\ UNCHANGED <<parked, request, response, topic, totalDurationSeconds, rawCookies, socketId,
                   cookies, videoIds, browser, engine, index, watchedTime, watchDuration>>

\* await page.setCookie(...cookies) settles.
SetCookieReturn ==
    /\ pc = "awaitSetCookie"
    /\ \/ /\ trace' = Append(
                 emitLog(trace, socketId, "Cookies set. Navigating to YouTube...", <<>>,
                         InProgress),
                 Called("page.goto", Str("https://www.youtube.com/")))
          /\ pc' = "awaitGotoHome"
       \/ Reject("setCookie failed")
    /\ UNCHANGED <<parked, request, response, topic, totalDurationSeconds, rawCookies, socketId,
                   cookies, videoIds, browser, engine, index, watchedTime, watchDuration>>

\* await page.goto('https://www.youtube.com/') settles.
GotoHomeReturn ==
    /\ pc = "awaitGotoHome"
    /\ \/ /\ trace' = Append(trace, Called("page.$", Undefined))
          /\ pc' = "awaitProbe"
       \/ Reject("Navigation timeout of 30000 ms exceeded")
    /\ UNCHANGED <<parked, request, response, topic, totalDurationSeconds, rawCookies, socketId,
                   cookies, videoIds, browser, engine, index, watchedTime, watchDuration>>

\* Mutant: a missing signed-in indicator fails the run.
ProbeReturn_LoginRequired ==
    /\ pc = "awaitProbe"
    /\ \/ LET out == LoopStep(emitLog(trace, socketId, "SUCCESS: Login confirmed.", <<>>,
                                      "status-success"),
                              socketId, videoIds, TotalDurationMs, 0, 0, browser)
          IN  /\ trace' = out.trace
              /\ pc' = out.pc
              /\ watchDuration' = out.watchDuration
              /\ index' = 0
              /\ watchedTime' = 0
       \/ LET out == Failed(emitLog(trace, socketId,
                                "WARNING: Login verification failed. Cookies may be expired.",
                                <<>>, "status-error"),
                            socketId, "Login verification failed", browser)
          IN  /\ trace' = out.trace
              /\ pc' = out.pc
              /\ UNCHANGED <<index, watchedTime, watchDuration>>
       \/ /\ Reject("page.$ failed")
          /\ UNCHANGED <<index, watchedTime, watchDuration>>
    /\ UNCHANGED <<parked, request, response, topic, totalDurationSeconds, rawCookies, socketId,
                   cookies, videoIds, browser, engine>>

\* await page.$(...) settles; then the watch loop starts.
ProbeReturn ==
    /\ pc = "awaitProbe"
    /\ \/ \E isLoggedIn \in BOOLEAN :
            LET tr1 == IF ~isLoggedIn
                       THEN emitLog(trace, socketId,
                                "WARNING: Login verification failed. Cookies may be expired.",
                                <<>>, "status-error")
                       ELSE emitLog(trace, socketId, "SUCCESS: Login confirmed.", <<>>,
                                "status-success")
                out == LoopStep(tr1, socketId, videoIds, TotalDurationMs, 0, 0, browser)
            IN  /\ trace' = out.trace
                /\ pc' = out.pc
                /\ watchDuration' = out.watchDuration
                /\ index' = 0
                /\ watchedTime' = 0
       \/ /\ Reject("page.$ failed")
          /\ UNCHANGED <<index, watchedTime, watchDuration>>
    /\ UNCHANGED <<parked, request, response, topic, totalDurationSeconds, rawCookies, socketId,
                   cookies, videoIds, browser, engine>>

\* Mutant: a failed navigation is skipped and the loop goes on with the next item.
GotoVideoReturn_Skip ==
    /\ pc = "awaitGotoVideo"
    /\ \/ /\ trace' = Append(trace, Called("setTimeout", Num(watchDuration)))
          /\ pc' = "awaitDwell"
          /\ UNCHANGED <<index, watchDuration>>
       \/ LET out == LoopStep(Throw(trace, "Navigation timeout of 60000 ms exceeded"),
                              socketId, videoIds, TotalDurationMs, index + 1, watchedTime,
                              browser)
          IN  /\ trace' = out.trace
              /\ pc' = out.pc
              /\ watchDuration' = out.watchDuration
              /\ index' = index + 1
    /\ UNCHANGED <<parked, request, response, topic, totalDurationSeconds, rawCookies, socketId,
                   cookies, videoIds, browser, engine, watchedTime>>

\* Mutant: the dwell promise is never resolved (setTimeout without its callback).
GotoVideoReturn_NeverResolves ==
    /\ pc = "awaitGotoVideo"
    /\ \/ /\ trace' = Append(trace, Called("setTimeout", Num(watchDuration)))
          /\ pc' = "awaitNothing"
       \/ Reject("Navigation timeout of 60000 ms exceeded")
    /\ UNCHANGED <<parked, request, response, topic, totalDurationSeconds, rawCookies, socketId,
                   cookies, videoIds, browser, engine, index, watchedTime, watchDuration>>

\* await page.goto(videoUrl) settles.
GotoVideoReturn ==
    /\ pc = "awaitGotoVideo"
    /\ \/ /\ trace' = Append(trace, Called("setTimeout", Num(watchDuration)))
          /\ pc' = "awaitDwell"
       \/ Reject("Navigation timeout of 60000 ms exceeded")
    /\ UNCHANGED <<parked, request, response, topic, totalDurationSeconds, rawCookies, socketId,
                   cookies, videoIds, browser, engine, index, watchedTime, watchDuration>>

\* The dwell timer fires: watchedTime += watchDuration and the loop goes on.
DwellReturn ==
    /\ pc = "awaitDwell"
    /\ LET w == watchedTime + watchDuration
           out == LoopStep(trace, socketId, videoIds, TotalDurationMs, index + 1, w, browser)
       IN  /\ watchedTime' = w
           /\ index' = index + 1
           /\ trace' = out.trace
           /\ pc' = out.pc
           /\ watchDuration' = out.watchDuration
    /\ UNCHANGED <<parked, request, response, topic, totalDurationSeconds, rawCookies, socketId,
                   cookies, videoIds, browser, engine>>

\* Mutant: the closing of the browser is reported to the subscriber.
CloseReturn_Announces ==
    /\ pc = "awaitClose"
    /\ \/ /\ engine' = "closed"
          /\ pc' = "done"
          /\ trace' = emitLog(trace, socketId, "Browser closed.", <<>>, InProgress)
       \/ /\ engine' \in {"running", "closed"}
          /\ pc' = "rejected"
          /\ trace' = Throw(trace, "browser.close failed")
    /\ UNCHANGED <<parked, request, response, topic, totalDurationSeconds, rawCookies, socketId,
                   cookies, videoIds, browser, index, watchedTime, watchDuration>>

\* await browser.close() settles, inside the finally block: a rejection
\* there is caught by nothing and rejects the promise of the run.
CloseReturn ==
    /\ pc = "awaitClose"
    /\ \/ /\ engine' = "closed"
          /\ pc' = "done"
          /\ UNCHANGED trace
       \/ /\ engine' \in {"running", "closed"}
          /\ pc' = "rejected"
          /\ trace' = Throw(trace, "browser.close failed")
    /\ UNCHANGED <<parked, request, response, topic, totalDurationSeconds, rawCookies, socketId,
                   cookies, videoIds, browser, index, watchedTime, watchDuration>>

RunSteps ==
    \/ ResolveReturn
    \/ LaunchReturn
    \/ NewPageReturn
    \/ SetUserAgentReturn
    \/ SetCookieReturn
    \/ GotoHomeReturn
    \/ ProbeReturn
    \/ GotoVideoReturn
    \/ DwellReturn
    \/ CloseReturn

Next == Invoke \/ RunSteps

NextEntry == PostDetoxStart \/ RunSteps

\* One direct call of runDetoxAutomation with any arguments.
Spec == Init /\ [][Next]_vars

\* One request to the entry operation and the run it starts.
SpecEntry == Init /\ [][NextEntry]_vars


\* The first segment of a run on a credential sequence waiting as input.
InitNormalize ==
    /\ pc = "idle"
    /\ request = Undefined
    /\ response = 0
    /\ topic = Undefined
    /\ totalDurationSeconds = Undefined
    /\ rawCookies \in NormalizeBlobs
    /\ socketId = Undefined
    /\ cookies = <<>>
    /\ videoIds = <<>>
    /\ browser = Undefined
    /\ engine = "none"
    /\ index = 0
    /\ watchedTime = 0
    /\ watchDuration = 0
    /\ trace = <<>>
    /\ parked = NoneParked

InvokeNormalize ==
    /\ pc = "idle"
    /\ \E t \in Topics, sid \in SocketIds :
          RunDetoxAutomation(t, Num(DefaultDurationSeconds), rawCookies, sid, trace)
    /\ UNCHANGED <<parked, request, response>>

NextNormalize == InvokeNormalize

\* Cookie normalisation on its own, over every shape of cookie record.
SpecNormalize == InitNormalize /\ [][NextNormalize]_vars

\* A direct call in which every awaited call eventually settles: the resolver,
\* the engine calls (each bounded by its timeout), the dwell timer, the close.
\* The credential blob is drawn from one blob of each kind, the cookie records
\* having no part in how far a run gets.
LiveBlobs ==
    MissingBlobs \cup MalformedBlobs \cup NonArrayBlobs \cup {JsonText("array", Arr(<<>>))}

InvokeLive ==
    /\ pc = "idle"
    /\ \E t \in Topics, d \in Durations, raw \in LiveBlobs, sid \in SocketIds :
          RunDetoxAutomation(t, d, raw, sid, trace)
    /\ UNCHANGED <<parked, request, response>>

NextLive == InvokeLive \/ RunSteps

SpecLive == Init /\ [][NextLive]_vars /\ WF_vars(RunSteps)

(***************************************************************************)
(* Concurrent calls.  The entry operation does not await the call it       *)
(* starts, so a second call may start while the first is suspended at an   *)
(* await; the event loop runs one continuation at a time.  The variables   *)
(* above are the locals of the running call; the locals of the suspended   *)
(* call are kept in parked.                                                *)
(***************************************************************************)
OtherSocketIds == {Str("s2")}
ConcurrentDurations == {Num(5 * MaxConcurrentDurationSteps)}
ConcurrentBlobs == {JsonText("array", Arr(<<>>))}
ConcurrentIdLists == {[j \in 1..n |-> j] : n \in 0..MaxConcurrentVideos}

\* The locals of the running call.
Current ==
    [pc |-> pc, topic |-> topic, totalDurationSeconds |-> totalDurationSeconds,
     rawCookies |-> rawCookies, socketId |-> socketId, cookies |-> cookies,
     videoIds |-> videoIds, browser |-> browser, engine |-> engine, index |-> index,
     watchedTime |-> watchedTime, watchDuration |-> watchDuration, trace |-> trace]

\* Mutant: watchedTime is declared outside the function, one for all calls.
Restore_SharedCounter(r) ==
    /\ pc' = r.pc
    /\ topic' = r.topic
    /\ totalDurationSeconds' = r.totalDurationSeconds
    /\ rawCookies' = r.rawCookies
    /\ socketId' = r.socketId
    /\ cookies' = r.cookies
    /\ videoIds' = r.videoIds
    /\ browser' = r.browser
    /\ engine' = r.engine
    /\ index' = r.index
    /\ UNCHANGED watchedTime
    /\ watchDuration' = r.watchDuration
    /\ trace' = r.trace

\* A suspended call resumes with the locals it was suspended with: all of
\* them are parameters, const or let declarations inside the function.
Restore(r) ==
    /\ pc' = r.pc
    /\ topic' = r.topic
    /\ totalDurationSeconds' = r.totalDurationSeconds
    /\ rawCookies' = r.rawCookies
    /\ socketId' = r.socketId
    /\ cookies' = r.cookies
    /\ videoIds' = r.videoIds
    /\ browser' = r.browser
    /\ engine' = r.engine
    /\ index' = r.index
    /\ watchedTime' = r.watchedTime
    /\ watchDuration' = r.watchDuration
    /\ trace' = r.trace

EmitsOf(tr) == SelectSeq(tr, LAMBDA e : e.k = "emit")

\* Every event io has been handed so far, in the order of the emit calls.
Wire == parked.wire \o EmitsOf(SubSeq(trace, parked.since + 1, Len(trace)))

\* The first call of two.
InvokeConcurrent ==
    /\ pc = "idle"
    /\ \E t \in Topics, d \in ConcurrentDurations, raw \in ConcurrentBlobs,
          sid \in SocketIds :
          RunDetoxAutomation(t, d, raw, sid, trace)
    /\ UNCHANGED <<parked, request, response>>

\* A second request arrives while the first call is suspended at an await:
\* its call runs up to its own first await.
SpawnRun ==
    /\ pc \notin {"idle", "done", "rejected"}
    /\ parked.runs = {}
    /\ \E t \in Topics, d \in ConcurrentDurations, raw \in ConcurrentBlobs,
          sid \in OtherSocketIds :
          RunDetoxAutomation(t, d, raw, sid, <<>>)
    /\ parked' = [runs |-> {Current}, wire |-> Wire, since |-> 0,
                  switches |-> parked.switches]
    /\ UNCHANGED <<request, response>>

\* The awaited call of the suspended call settles first: the event loop runs
\* its continuation next, and the running call stays suspended at its await
\* (or has returned).
Switch ==
    /\ pc # "idle"
    /\ \E r \in parked.runs :
          /\ r.pc \notin {"done", "rejected"}
          /\ pc \in {"done", "rejected"} \/ parked.switches < MaxSwitches
          /\ Restore(r)
          /\ parked' = [runs |-> {Current}, wire |-> Wire, since |-> Len(r.trace),
                        switches |-> IF pc \in {"done", "rejected"}
                                     THEN parked.switches
                                     ELSE parked.switches + 1]
    /\ UNCHANGED <<request, response>>

\* A continuation of the running call, the resolver answering with one of a
\* few lists.
ConcurrentSteps ==
    /\ RunSteps
    /\ videoIds' \in ConcurrentIdLists

NextConcurrent == InvokeConcurrent \/ SpawnRun \/ Switch \/ ConcurrentSteps

\* Two calls with distinct socket ids, interleaved at their awaits.
SpecConcurrent == Init /\ [][NextConcurrent]_vars

(***************************************************************************)
(* Readings of the history.                                                *)
(***************************************************************************)
Emits(name) == SelectSeq(trace, LAMBDA e : e.k = "emit" /\ e.name = name)
Calls(fn) == SelectSeq(trace, LAMBDA e : e.k = "call" /\ e.name = fn)
Throws == SelectSeq(trace, LAMBDA e : e.k = "throw")
NumEmitted(name) == Len(Emits(name))
NumCalled(fn) == Len(Calls(fn))
HasThrown(error) == \E i \in 1..Len(trace) : trace[i].k = "throw" /\ trace[i].name = error
HasLogged(text) ==
    \E i \in 1..Len(trace) :
        trace[i].k = "emit" /\ trace[i].name = "log" /\ trace[i].arg.message.text = text
\* Navigations to content pages (the home page is addressed by its URL).
VideoGotos ==
    SelectSeq(trace, LAMBDA e : e.k = "call" /\ e.name = "page.goto" /\ e.arg.t = "number")
Dwells == Calls("setTimeout")
ProgressLogs ==
    SelectSeq(trace, LAMBDA e : e.k = "emit" /\ e.name = "log"
                                 /\ e.arg.message.text = "Watching video")
Terminals == NumEmitted("detoxComplete") + NumEmitted("detoxError")
Started == pc # "idle"
Ended == pc \in {"done", "rejected"}
Launched == Truthy(browser)
NavigationFailed == HasThrown("Navigation timeout of 60000 ms exceeded")

RECURSIVE SumDwells(_, _)
SumDwells(dw, n) == IF n = 0 THEN 0 ELSE SumDwells(dw, n - 1) + dw[n].arg.n

Ceil(a, b) == (a + b - 1) \div b

(***************************************************************************)
(* Claims.                                                                 *)
(***************************************************************************)

\* C1: at no point of a run have two terminal events been emitted, and once
\* the run has ended exactly one of detoxComplete, detoxError has been
\* emitted, exactly once, however many log events came before it.
C1_ExactlyOneTerminal ==
    /\ Terminals <= 1
    /\ Ended => Terminals = 1

C1_Witness ==
    /\ pc = "done"
    /\ NumEmitted("detoxComplete") = 1
    /\ NumEmitted("detoxError") = 0
    /\ NumEmitted("log") >= 7

\* C2: browser.close() is never called twice; a run that launched the engine
\* has called it exactly once when it ends, on every exit path, and the engine
\* is closed when the run is done; a run that launched nothing closes nothing.
C2_EngineClosedOnce ==
    /\ NumCalled("browser.close") <= 1
    /\ (Ended /\ Launched) => NumCalled("browser.close") = 1
    /\ (pc = "done" /\ Launched) => engine = "closed"
    /\ ~Launched => (NumCalled("browser.close") = 0 /\ engine = "none")

C2_Witness ==
    /\ pc = "done"
    /\ engine = "closed"
    /\ HasThrown("setCookie failed")
    /\ NumCalled("browser.close") = 1

\* C3: when the navigation to item k of N fails, exactly one detoxError and no
\* detoxComplete is emitted, the navigations made are exactly those to items
\* 1..k, each once (no retry, nothing after k), the failed item is not held,
\* and the engine is closed exactly once.
C3_NavigationFailureAborts ==
    NavigationFailed =>
        /\ NumEmitted("detoxError") = 1
        /\ NumEmitted("detoxComplete") = 0
        /\ Len(VideoGotos) = index + 1
        /\ index + 1 <= Len(videoIds)
        /\ \A j \in 1..Len(VideoGotos) : VideoGotos[j].arg.n = videoIds[j]
        /\ Len(Dwells) = index
        /\ Len(Throws) = IF pc = "rejected" THEN 2 ELSE 1
        /\ NumCalled("browser.close") = 1
        /\ pc \in {"awaitClose", "done", "rejected"}
        /\ pc = "done" => engine = "closed"

C3_Witness ==
    /\ NavigationFailed
    /\ pc = "done"
    /\ index + 1 = 2
    /\ Len(videoIds) = 4
    /\ engine = "closed"

\* C4: when the content resolver fails or returns an empty sequence, the
\* engine is never launched, nothing is navigated to, and exactly one
\* detoxError (and no detoxComplete) is emitted.
C4_NoContentNoLaunch ==
    (NumCalled("getCuratedVideoIds") = 1 /\ pc # "awaitResolve" /\ videoIds = <<>>) =>
        /\ NumCalled("puppeteer.launch") = 0
        /\ NumCalled("page.goto") = 0
        /\ ~Launched
        /\ engine = "none"
        /\ NumEmitted("detoxError") = 1
        /\ NumEmitted("detoxComplete") = 0
        /\ pc = "done"

C4_Witness ==
    /\ pc = "done"
    /\ videoIds = <<>>
    /\ HasThrown("Could not find relevant long-form videos for this topic.")
    /\ NumEmitted("detoxError") = 1

\* C5: when the credential blob is absent, is not JSON, or is JSON that is not
\* a sequence, the run ends with exactly one detoxError, the content resolver
\* is not invoked and no engine is launched.
C5_InvalidCredentialsFailEarly ==
    (Started /\ rawCookies \in MissingBlobs \cup MalformedBlobs \cup NonArrayBlobs) =>
        /\ pc = "done"
        /\ NumEmitted("detoxError") = 1
        /\ NumEmitted("detoxComplete") = 0
        /\ NumCalled("getCuratedVideoIds") = 0
        /\ NumCalled("puppeteer.launch") = 0
        /\ engine = "none"

C5_Witness ==
    /\ pc = "done"
    /\ rawCookies \in NonArrayBlobs
    /\ NumEmitted("detoxError") = 1

\* C6: for a budget T >= 0 ms and cap C = 30000 ms, the items navigated to are
\* a prefix of the resolved list in resolver order, each once; every dwell is
\* min(C, T - watched) with watched < T when the item is visited; and a run
\* that completes has visited exactly min(N, ceil(T / C)) items.
C6_WatchLoopBudget ==
    (Started /\ totalDurationSeconds.n >= 0) =>
        /\ Len(VideoGotos) <= Len(videoIds)
        /\ \A j \in 1..Len(VideoGotos) : VideoGotos[j].arg.n = videoIds[j]
        /\ Len(ProgressLogs) = Len(VideoGotos)
        /\ Len(Dwells) <= Len(VideoGotos)
        /\ \A j \in 1..Len(Dwells) :
              /\ SumDwells(Dwells, j - 1) < TotalDurationMs
              /\ Dwells[j].arg.n =
                    Min(MIN_WATCH_TIME_PER_VIDEO_MS, TotalDurationMs - SumDwells(Dwells, j - 1))
        /\ \A j \in 1..Len(ProgressLogs) :
              LET watched == (j - 1) * MIN_WATCH_TIME_PER_VIDEO_MS
              IN  /\ watched < TotalDurationMs
                  /\ ProgressLogs[j].arg.message.params =
                        <<j, Len(videoIds)>> \o
                          ToFixed1(Min(MIN_WATCH_TIME_PER_VIDEO_MS, TotalDurationMs - watched))
        /\ watchedTime =
              SumDwells(Dwells, IF pc = "awaitDwell" THEN Len(Dwells) - 1 ELSE Len(Dwells))
        /\ NumEmitted("detoxComplete") = 1 =>
              /\ Len(VideoGotos) = Min(Len(videoIds), Ceil(TotalDurationMs, MIN_WATCH_TIME_PER_VIDEO_MS))
              /\ Len(Dwells) = Len(VideoGotos)
              /\ watchedTime >= TotalDurationMs \/ Len(VideoGotos) = Len(videoIds)

C6_Witness ==
    /\ pc = "done"
    /\ totalDurationSeconds = Num(65)
    /\ Len(videoIds) = 4
    /\ NumEmitted("detoxComplete") = 1
    /\ Len(VideoGotos) = 3
    /\ [j \in 1..Len(Dwells) |-> Dwells[j].arg.n] = <<30000, 30000, 5000>>

\* C7: with a total duration of 0 s and a non-empty resolved list, no content
\* page is navigated to, no progress event is emitted, nothing is held, and
\* once the login check has returned the run emits detoxComplete reporting
\* "0.0s".
C7_ZeroDurationVisitsNothing ==
    (Started /\ totalDurationSeconds = Num(0) /\ Len(videoIds) > 0) =>
        /\ Len(VideoGotos) = 0
        /\ Len(ProgressLogs) = 0
        /\ Len(Dwells) = 0
        /\ (HasLogged("SUCCESS: Login confirmed.")
              \/ HasLogged("WARNING: Login verification failed. Cookies may be expired.")) =>
              /\ NumEmitted("detoxComplete") = 1
              /\ NumEmitted("detoxError") = 0
              /\ Emits("detoxComplete")[1].arg.message.params = <<0, 0>>
              /\ Emits("detoxComplete")[1].arg.success

C7_Witness ==
    /\ pc = "done"
    /\ totalDurationSeconds = Num(0)
    /\ Len(videoIds) = 4
    /\ NumEmitted("detoxComplete") = 1
    /\ Emits("detoxComplete")[1].arg.message.params = <<0, 0>>


\* C8: the run started by the entry operation gets the duration the request
\* supplied, and the default of 60 seconds only when the request supplied
\* none; a supplied duration of 0 is passed through unchanged.
C8_DurationPassedThrough ==
    response = 200 =>
        totalDurationSeconds =
            IF request.duration = Undefined THEN Num(DefaultDurationSeconds)
            ELSE request.duration

\* C9: every failure raised inside a run, the engine shutdown included, is
\* caught inside runDetoxAutomation and turned into exactly one detoxError;
\* the promise of the run is never rejected.
C9_EveryFailureCaught ==
    /\ pc # "rejected"
    /\ (Ended /\ Len(Throws) > 0) => NumEmitted("detoxError") = 1

\* C10: before the request is handled nothing has happened; a request that
\* lacks topic, userCookies or socketId is answered 400 and starts no run; any
\* other request is answered 200, once, before anything the run emits or
\* calls, and starts exactly one run with the request's topic, cookies and
\* socket id; a run is never pending without the 200 having been sent.
RequestMissing ==
    \/ request.topic \in {Undefined, Str("")}
    \/ request.userCookies \in MissingBlobs
    \/ request.socketId \in {Undefined, Str("")}

C10_EntryResponse ==
    IF request = Undefined
    THEN response = 0 /\ trace = <<>> /\ ~Started
    ELSE IF RequestMissing
    THEN /\ response = 400
         /\ trace = <<Responded(400)>>
         /\ ~Started
         /\ engine = "none"
    ELSE /\ response = 200
         /\ trace[1] = Responded(200)
         /\ \A i \in 2..Len(trace) : trace[i].k # "respond"
         /\ Started
         /\ Len(SelectSeq(trace, LAMBDA e : e.k = "emit" /\ e.name = "log"
                /\ e.arg.message.text = "Validating authentication data...")) = 1
         /\ topic = request.topic
         /\ rawCookies = request.userCookies
         /\ socketId = request.socketId
         /\ \A i \in 1..Len(trace) : trace[i].k = "emit" => trace[i].to = request.socketId

C10_Witness ==
    /\ response = 200
    /\ pc = "awaitResolve"
    /\ trace[1] = Responded(200)
    /\ NumEmitted("log") = 2

\* C11: every normalised cookie has a sameSite of exactly "Strict", "Lax" or
\* "None", or none at all: strict / lax / none in any casing come out in
\* canonical casing, and neither the empty string nor a non-string survives.
Parsed == pc = "awaitResolve"
InputCookies == rawCookies.doc.items
C11_SameSiteCanonical ==
    Parsed =>
        \A i \in 1..Len(cookies) :
            \/ "sameSite" \notin DOMAIN cookies[i]
            \/ cookies[i]["sameSite"] \in {Str("Strict"), Str("Lax"), Str("None")}

\* C12: a sameSite of no_restriction in any casing is normalised to exactly
\* "None"; a non-empty string matching none of no_restriction, strict, lax,
\* none in any casing, a null and an absent sameSite leave no sameSite field.
RecognizedSpellings ==
    { "no_restriction", "No_Restriction", "NO_RESTRICTION", "strict", "Strict", "STRICT",
      "lax", "Lax", "LAX", "none", "None", "NONE" }
SameSiteIn(i) == Get(Spread(InputCookies[i]), "sameSite")
C12_SameSiteMapping ==
    Parsed =>
        \A i \in 1..Len(InputCookies) :
            /\ SameSiteIn(i) \in {Str("no_restriction"), Str("No_Restriction"),
                                  Str("NO_RESTRICTION")}
                 => ("sameSite" \in DOMAIN cookies[i] /\ cookies[i]["sameSite"] = Str("None"))
            /\ (\/ SameSiteIn(i) \in {Null, Undefined}
                \/ /\ SameSiteIn(i).t = "string"
                   /\ SameSiteIn(i).s # ""
                   /\ SameSiteIn(i).s \notin RecognizedSpellings)
                 => "sameSite" \notin DOMAIN cookies[i]

C12_Witness ==
    /\ Parsed
    /\ Len(InputCookies) = 2
    /\ SameSiteIn(1) = Str("NO_RESTRICTION")
    /\ SameSiteIn(2) = Str("Bogus")
    /\ cookies[1]["sameSite"] = Str("None")
    /\ "sameSite" \notin DOMAIN cookies[2]

\* C13: normalisation of a parsed sequence never fails and yields a sequence
\* of the same length and order: entry i has no storeId and no id, has no
\* expirationDate when its session flag is true, adds no property, and keeps
\* every property other than storeId, id, expirationDate and sameSite as it
\* was.
IsSequenceText(raw) == "doc" \in DOMAIN raw /\ raw.doc.t = "array"
C13_NormalizationShape ==
    (Started /\ IsSequenceText(rawCookies)) =>
        /\ Parsed
        /\ Len(cookies) = Len(InputCookies)
        /\ \A i \in 1..Len(InputCookies) :
              LET in == Spread(InputCookies[i])
                  out == cookies[i]
              IN  /\ "storeId" \notin DOMAIN out
                  /\ "id" \notin DOMAIN out
                  /\ Get(in, "session") = Bool(TRUE) => "expirationDate" \notin DOMAIN out
                  /\ DOMAIN out \subseteq DOMAIN in
                  /\ \A key \in (DOMAIN in) \ {"storeId", "id", "expirationDate", "sameSite"} :
                        key \in DOMAIN out /\ out[key] = in[key]

C13_Witness ==
    /\ Parsed
    /\ Len(InputCookies) = 2
    /\ Len(cookies) = 2
    /\ "storeId" \in DOMAIN InputCookies[1]
    /\ Get(InputCookies[1], "session") = Bool(TRUE)
    /\ "expirationDate" \in DOMAIN InputCookies[1]
    /\ Get(Spread(InputCookies[2]), "session") = Bool(FALSE)
    /\ cookies[1]["name"] = Str("SID")
    /\ cookies[2]["name"] = Str("HSID")

\* C14: a missing signed-in indicator is not fatal.  After either outcome of
\* the login check, exactly one log event reports it, a detoxError is emitted
\* only for a failed navigation, the run goes on into the watch loop, visits
\* the items in resolver order, and when no navigation fails it ends with
\* detoxComplete after min(N, ceil(T / C)) visits: the warning changes
\* nothing but that one log event.
LoginWarning == "WARNING: Login verification failed. Cookies may be expired."
LoginSuccess == "SUCCESS: Login confirmed."
LogsWithText(text) ==
    SelectSeq(trace, LAMBDA e : e.k = "emit" /\ e.name = "log" /\ e.arg.message.text = text)
ExpectedVisits ==
    IF TotalDurationMs <= 0 THEN 0
    ELSE Min(Len(videoIds), Ceil(TotalDurationMs, MIN_WATCH_TIME_PER_VIDEO_MS))
AfterLoginCheck(text, type) ==
    HasLogged(text) =>
        /\ Len(LogsWithText(text)) = 1
        /\ LogsWithText(text)[1].arg.type = type
        /\ Len(LogsWithText(LoginWarning)) + Len(LogsWithText(LoginSuccess)) = 1
        /\ NumEmitted("detoxError") = IF NavigationFailed THEN 1 ELSE 0
        /\ pc \in {"awaitGotoVideo", "awaitDwell", "awaitClose", "done", "rejected"}
        /\ \A j \in 1..Len(VideoGotos) : VideoGotos[j].arg.n = videoIds[j]
        /\ Len(VideoGotos) <= ExpectedVisits
        /\ (~NavigationFailed /\ pc \in {"awaitClose", "done", "rejected"}) =>
              /\ NumEmitted("detoxComplete") = 1
              /\ Len(VideoGotos) = ExpectedVisits
              /\ Len(Dwells) = ExpectedVisits
              /\ watchedTime = Min(IF TotalDurationMs <= 0 THEN 0 ELSE TotalDurationMs,
                                   Len(videoIds) * MIN_WATCH_TIME_PER_VIDEO_MS)

C14_LoginUnverifiedNonFatal ==
    /\ AfterLoginCheck(LoginWarning, "status-error")
    /\ AfterLoginCheck(LoginSuccess, "status-success")

C14_Witness ==
    /\ HasLogged(LoginWarning)
    /\ pc = "done"
    /\ NumEmitted("detoxComplete") = 1
    /\ NumEmitted("detoxError") = 0
    /\ Len(VideoGotos) = 3
    /\ Len(videoIds) = 4

\* C15 as claimed: a progress event for item i is emitted only after the
\* navigation to item i has succeeded, so there are never more progress
\* events than navigations that returned (each followed by its hold).
C15_ProgressAfterNavigation == Len(ProgressLogs) <= Len(Dwells)

\* C15 as amended: for every item the loop handles the order is progress
\* event, navigation, hold, addition: every navigation to a content page comes
\* directly after the progress event naming that item, every progress event
\* is directly followed by that navigation, every hold comes directly after a
\* navigation, watched counts the holds that have ended, and an item whose
\* navigation fails has its progress event and no hold.
IsProgress(e) == e.k = "emit" /\ e.name = "log" /\ e.arg.message.text = "Watching video"
IsVideoGoto(e) == e.k = "call" /\ e.name = "page.goto" /\ e.arg.t = "number"
C15_ProgressBeforeNavigation ==
    /\ \A i \in 1..Len(trace) :
          /\ IsVideoGoto(trace[i]) =>
                /\ i > 1
                /\ IsProgress(trace[i - 1])
                /\ trace[i - 1].arg.message.params[1] \in 1..Len(videoIds)
                /\ trace[i].arg.n = videoIds[trace[i - 1].arg.message.params[1]]
          /\ IsProgress(trace[i]) => (i < Len(trace) /\ IsVideoGoto(trace[i + 1]))
          /\ (trace[i].k = "call" /\ trace[i].name = "setTimeout") =>
                (i > 1 /\ IsVideoGoto(trace[i - 1]))
    /\ \A j \in 1..Len(ProgressLogs) : ProgressLogs[j].arg.message.params[1] = j
    /\ watchedTime =
          SumDwells(Dwells, IF pc = "awaitDwell" THEN Len(Dwells) - 1 ELSE Len(Dwells))
    /\ NavigationFailed =>
          (Len(ProgressLogs) = Len(VideoGotos) /\ Len(Dwells) = Len(VideoGotos) - 1)

C15_Witness ==
    /\ NavigationFailed
    /\ pc = "done"
    /\ Len(ProgressLogs) = 2
    /\ Len(VideoGotos) = 2
    /\ Len(Dwells) = 1
    /\ watchedTime = 30000

\* C16: every navigation of a run, to the home page or to a content page,
\* comes after the one call of page.setCookie with the normalised cookies,
\* and that call has not failed.
C16_CookiesBeforeNavigation ==
    /\ NumCalled("page.setCookie") <= 1
    /\ \A i \in 1..Len(trace) :
          (trace[i].k = "call" /\ trace[i].name = "page.goto") =>
              \E j \in 1..(i - 1) :
                  /\ trace[j].k = "call"
                  /\ trace[j].name = "page.setCookie"
                  /\ trace[j].arg = Arr(cookies)
    /\ HasThrown("setCookie failed") => NumCalled("page.goto") = 0
    /\ pc = "awaitSetCookie" => NumCalled("page.goto") = 0

C16_Witness ==
    /\ pc = "done"
    /\ Len(cookies) = 1
    /\ NumCalled("page.setCookie") = 1
    /\ Len(VideoGotos) = 2
    /\ NumCalled("page.goto") = 3

\* C19: a run calls puppeteer.launch at most once, and only after the cookies
\* were parsed and the resolver returned a non-empty list; every engine
\* operation comes after a successful launch and none comes after the call of
\* browser.close; a run whose launch failed never calls browser.close.
IsEngineOp(e) ==
    e.k = "call" /\ e.name \in {"browser.newPage", "page.setUserAgent", "page.setCookie",
                                "page.goto", "page.$", "browser.close"}
C19_EngineLifecycle ==
    /\ NumCalled("puppeteer.launch") <= 1
    /\ \A i \in 1..Len(trace) :
          /\ (trace[i].k = "call" /\ trace[i].name = "puppeteer.launch") =>
                /\ rawCookies \in ArrayBlobs
                /\ Len(videoIds) > 0
                /\ \E j \in 1..(i - 1) :
                      trace[j].k = "call" /\ trace[j].name = "getCuratedVideoIds"
                /\ \E j \in 1..(i - 1) :
                      /\ trace[j].k = "emit"
                      /\ trace[j].arg.message.text =
                            "Cookies parsed and normalized. Fetching video list..."
          /\ IsEngineOp(trace[i]) =>
                /\ Launched
                /\ \E j \in 1..(i - 1) :
                      trace[j].k = "call" /\ trace[j].name = "puppeteer.launch"
          /\ (trace[i].k = "call" /\ trace[i].name = "browser.close") =>
                \A j \in (i + 1)..Len(trace) : trace[j].k # "call"
    /\ HasThrown("Failed to launch the browser process") =>
          (NumCalled("browser.close") = 0 /\ ~Launched /\ engine = "none" /\ pc = "done")

C19_Witness ==
    /\ HasThrown("Failed to launch the browser process")
    /\ pc = "done"
    /\ NumCalled("puppeteer.launch") = 1
    /\ NumCalled("browser.close") = 0

\* C20: the terminal event is the last event of a run: nothing is emitted to
\* the subscriber after detoxComplete or detoxError, on any exit path.
C20_TerminalEventLast ==
    \A i \in 1..Len(trace) :
        (trace[i].k = "emit" /\ trace[i].name \in {"detoxComplete", "detoxError"}) =>
            \A j \in (i + 1)..Len(trace) : trace[j].k # "emit"

C20_Witness ==
    /\ pc = "done"
    /\ engine = "closed"
    /\ NumEmitted("detoxError") = 1
    /\ trace[Len(trace)].k = "call"
    /\ trace[Len(trace)].name = "browser.close"

\* C18: every started run eventually ends, completed or failed, when every
\* awaited call eventually settles; the watch loop never handles more items
\* than were resolved.
C18_RunTerminates ==
    /\ [](index <= Len(videoIds) /\ Len(VideoGotos) <= Len(videoIds))
    /\ Started ~> Ended

C18_Witness ==
    /\ pc = "done"
    /\ Len(videoIds) = 2
    /\ index = 2
    /\ Len(VideoGotos) = 2
    /\ NumEmitted("detoxComplete") = 1

\* The events the transport has carried to one subscriber, in order.
WireTo(sid) == SelectSeq(Wire, LAMBDA e : e.to = sid)

\* What holds of a call that runs alone: one terminal event at most and
\* exactly one at the end, after every other event; the engine closed once at
\* most; the watched counter the sum of the call's own holds.
AsIfAlone ==
    /\ C1_ExactlyOneTerminal
    /\ C2_EngineClosedOnce
    /\ C6_WatchLoopBudget
    /\ C20_TerminalEventLast

\* C17: with two calls interleaved at their awaits under distinct socket ids,
\* the transport carries to each socket id exactly the events of that call, in
\* the order the call emitted them, and nothing else; the suspended call keeps
\* its own locals (its own engine handle state and watched counter), and the
\* running call's history, counter and engine are those of a call running
\* alone, ending in exactly one terminal event.
C17_RunsIndependent ==
    /\ WireTo(socketId) = EmitsOf(trace)
    /\ \A r \in parked.runs :
          /\ r.socketId # socketId
          /\ WireTo(r.socketId) = EmitsOf(r.trace)
          /\ Len(Wire) = Len(EmitsOf(trace)) + Len(EmitsOf(r.trace))
    /\ parked.runs = {} => Len(Wire) = Len(EmitsOf(trace))
    /\ \A i \in 1..Len(trace) : trace[i].k = "emit" => trace[i].to = socketId
    /\ AsIfAlone

\* Both calls have completed after holding a page each, and the transport
\* carried an event of the second call between two events of the first.
C17_Witness ==
    /\ pc = "done"
    /\ Len(Dwells) >= 1
    /\ \E r \in parked.runs :
          /\ r.pc = "done"
          /\ r.watchedTime > 0
          /\ r.engine = "closed"
    /\ \E i, j, k \in 1..Len(Wire) :
          /\ i < j
          /\ j < k
          /\ Wire[i].to = Wire[k].to
          /\ Wire[j].to # Wire[i].to

====
